---- MODULE Spec2Model ----
(***************************************************************************)
(* PrescribeWise (streamlit_app.py): a Streamlit script that loads one PDF *)
(* through a process-wide memoised loader, keeps one chat history per      *)
(* browser session in st.session_state, and forwards each chat turn to a   *)
(* text-generation service.                                                *)
(*                                                                         *)
(* Streamlit runs the whole script top to bottom once per user event, one  *)
(* thread per session.  A run is modelled as the sequence of its writes to *)
(* the cache and to st.session_state; pc[s] is where session s stands.     *)
(*                                                                         *)
(* Text is modelled by TLA+ strings; Python's None by the empty tuple and  *)
(* a present value x by <<x>>.                                             *)
(***************************************************************************)
EXTENDS Integers, Sequences, FiniteSets, TLC

VARIABLES
    doc,        \* the file WHOAMR.pdf as the file system and PyPDF2 present it
    revisions,  \* how often the file was replaced on disk
    cache,      \* the st.cache_data store of load_pdf_text
    bodyRuns,   \* how often the body of load_pdf_text was entered
    queries,    \* chat inputs submitted so far, over all sessions
    ss,         \* st.session_state of each session
    pc,         \* each session's position in the script
    ev,         \* the widget event that triggered the session's current run
    screen,     \* the widgets on the session's page
    local       \* the script's module-level names in the session's current run

vars == <<doc, revisions, cache, bodyRuns, queries, ss, pc, ev, screen, local>>

---------------------------------------------------------------------------
(* Bounds of the model *)

MaxQueries == 2
MaxRevisions == 1
MaxReplyTokens == 1
MaxPages == 2

(* Program constant: pdf_text[:10000] *)
ContextLimit == 10000

Sessions == {1, 2}

---------------------------------------------------------------------------
(* Values *)

None == <<>>
Some(x) == <<x>>

Min(a, b) == IF a < b THEN a ELSE b

Last(q) == q[Len(q)]

RECURSIVE Rep(_, _)
Rep(s, n) == IF n = 0 THEN "" ELSE s \o Rep(s, n - 1)

PdfPath == "WHOAMR.pdf"

(* Page contents used to build documents: an empty page, a short page, and *)
(* a page that alone exceeds the context limit.                            *)
EmptyPageText == ""
ShortPageText == "Amoxicillin 500 mg every 8 hours"
LongPageText == Rep(Rep("0123456789", 100), 10) \o "tail"

GoodPage(t) == [raises |-> FALSE, text |-> t, error |-> ""]
BadPage == [raises |-> TRUE, text |-> "", error |-> "cannot extract page"]

PageOutcomes == {GoodPage(EmptyPageText), GoodPage(ShortPageText),
                 GoodPage(LongPageText), BadPage}

RECURSIVE SeqsUpTo(_, _)
SeqsUpTo(S, n) ==
    IF n = 0 THEN {<<>>}
    ELSE LET shorter == SeqsUpTo(S, n - 1)
         IN shorter \cup {Append(q, x) : q \in {r \in shorter : Len(r) = n - 1}, x \in S}

MissingDoc == [exists |-> FALSE, opens |-> FALSE, openError |-> "", pages |-> <<>>]
UnreadableDoc == [exists |-> TRUE, opens |-> FALSE,
                  openError |-> "EOF marker not found", pages |-> <<>>]
ReadableDoc(ps) == [exists |-> TRUE, opens |-> TRUE, openError |-> "", pages |-> ps]

ShortDoc == ReadableDoc(<<GoodPage(ShortPageText), GoodPage(EmptyPageText)>>)

(* Documents of the session model, and of the loader model. *)
Documents == {MissingDoc, ShortDoc}
AllDocuments == {MissingDoc, UnreadableDoc}
                \cup {ReadableDoc(ps) : ps \in SeqsUpTo(PageOutcomes, MaxPages)}

---------------------------------------------------------------------------
(* load_pdf_text *)

NotFoundMessage(pdf_path) == "PDF not found at " \o pdf_path

PageHeader(page_num) == "\n--- Page " \o ToString(page_num) \o " ---\n"

(* The loop over pdf_reader.pages, from page i on, with the text gathered  *)
(* so far.  page.extract_text() either returns the page's text or raises;  *)
(* the exception leaves the loop.                                          *)
RECURSIVE ExtractPages(_, _, _)
ExtractPages(pages, i, text) ==
    IF i > Len(pages) THEN [raised |-> FALSE, text |-> text, error |-> ""]
    ELSE LET headed == text \o PageHeader(i)
         IN IF pages[i].raises
            THEN [raised |-> TRUE, text |-> headed, error |-> pages[i].error]
            ELSE ExtractPages(pages, i + 1, headed \o pages[i].text)

(* str(e) of the FileNotFoundError that open(pdf_path, 'rb') raises *)
NoSuchFileMessage(pdf_path) ==
    "[Errno 2] No such file or directory: '" \o pdf_path \o "'"

(* Lines 33-42: open, PdfReader and the page loop, on the file d that is   *)
(* on disk when line 33 opens it.                                          *)
ReadPdf(d, pdf_path) ==
    IF ~d.exists THEN [text |-> None, error |-> Some(NoSuchFileMessage(pdf_path))]
    ELSE IF ~d.opens THEN [text |-> None, error |-> Some(d.openError)]
    ELSE LET r == ExtractPages(d.pages, 1, "")
         IN IF r.raised THEN [text |-> None, error |-> Some(r.error)]
            ELSE [text |-> Some(r.text), error |-> None]

(* The body of load_pdf_text: the pair (text, error).  The file system is  *)
(* read twice: exists is what Path(pdf_path).exists() returned at line 30, *)
(* d is the file on disk when line 33 opens it.                            *)
LoadPdfText(exists, d, pdf_path) ==
    IF ~exists THEN [text |-> None, error |-> Some(NotFoundMessage(pdf_path))]
    ELSE ReadPdf(d, pdf_path)

(* @st.cache_data: results are memoised per argument value for the life of *)
(* the process; lookup and computation of a missing entry happen under the *)
(* cache's lock.                                                           *)
CacheHitNever(c, pdf_path) == FALSE

CacheHit(c, pdf_path) == \E e \in c : e.path = pdf_path

CacheValue(c, pdf_path) == (CHOOSE e \in c : e.path = pdf_path).value

NoResult == [text |-> None, error |-> None]

---------------------------------------------------------------------------
(* The system prompt *)

ContextHeader == "\n\nWHO AWaRe ANTIBIOTIC BOOK (2022) CONTENT:\n"
TruncationMarker == "\n[... document continues ...]"

Slice(text, n) == SubSeq(text, 1, Min(Len(text), n))

PdfContextWhole(pdf_loaded, pdf_text) ==
    IF pdf_loaded THEN ContextHeader \o pdf_text[1] \o TruncationMarker ELSE ""

PdfContext(pdf_loaded, pdf_text) ==
    IF pdf_loaded
    THEN ContextHeader \o Slice(pdf_text[1], ContextLimit) \o TruncationMarker
    ELSE ""

(* The fixed text of the prompt before and after {pdf_context}; the rules  *)
(* that follow the context are abridged to their first line.               *)
PromptHead == "You are PrescribeWise, an intelligent health worker assistant specialized in The WHO AWaRe (Access, Watch, Reserve) Antibiotic Book (2022).\n\nYour mission: Help health workers prescribe antibiotics appropriately to improve rational use and combat multidrug resistance.\n\n"
PromptTail == "\n\nCRITICAL RESPONSE RULES:\n"

Message(role, content) == [role |-> role, content |-> content]

SystemMessage(pdf_context) ==
    Message("system", PromptHead \o pdf_context \o PromptTail)

---------------------------------------------------------------------------
(* st.session_state *)

EmptySessionState == [k \in {} |-> TRUE]

SetDefault(st, key, value) == IF key \in DOMAIN st THEN st ELSE st @@ (key :> value)

(* st.session_state[key].append(m), in session s *)
AppendEverywhere(all, s, key, m) ==
    [t \in DOMAIN all |->
        IF key \in DOMAIN all[t] THEN [all[t] EXCEPT ![key] = Append(@, m)]
        ELSE all[t]]

AppendDisplayOnly(all, s, key, m) ==
    [all EXCEPT ![s] = [@ EXCEPT !.display_messages = Append(@, m)]]

AppendTurn(all, s, key, m) ==
    [all EXCEPT ![s] = [@ EXCEPT ![key] = Append(@, m)]]

---------------------------------------------------------------------------
(* The text-generation service and the user *)

(* What the user types.  The script appends and forwards the text and     *)
(* never inspects it, so the questions only have to be told apart: the     *)
(* user asks the two questions in turn.                                    *)
Prompts == <<"first-line treatment for pneumonia?", "alternatives for UTI?">>

(* The question typed after n earlier ones *)
NextPrompt(n) == Prompts[(n % Len(Prompts)) + 1]
Token == "Amoxicillin. "
GenErrors == {"Connection error."}

(* f"<cross mark> Error: {str(e)}"; the cross mark emoji is written [x] *)
ErrorMessage(e) == "[x] Error: " \o e

NoEvent == [kind |-> "none", prompt |-> ""]
Click(k) == [kind |-> k, prompt |-> ""]
Submitted(p) == [kind |-> "submit", prompt |-> p]

(* The names of a run, and with them appended: the roles of the entries    *)
(* the run has appended to messages or display_messages so far.            *)
FreshLocal == [pdf |-> NoResult, pdf_loaded |-> FALSE, client |-> FALSE,
               prompt |-> "", full_response |-> "",
               raised |-> FALSE, error |-> "", appended |-> {}]

(* The widgets of the two pages: the sidebar's New Consultation (378) and  *)
(* Start Using (575); About (587), New Consultation (591) and the chat     *)
(* input (618).  A run halted at the key check leaves none.                *)
NoPage == {}
InfoPage == {"side_new", "start"}
ChatPage == {"side_new", "about", "chat_new", "chat_input"}

---------------------------------------------------------------------------
(* Initial states *)

Init ==
    /\ doc \in Documents
    /\ revisions = 0
    /\ cache = {}
    /\ bodyRuns = 0
    /\ queries = 0
    /\ ss = [s \in Sessions |-> EmptySessionState]
    /\ pc = [s \in Sessions |-> IF s = 1 THEN "load" ELSE "off"]
    /\ ev = [s \in Sessions |-> NoEvent]
    /\ screen = [s \in Sessions |-> NoPage]
    /\ local = [s \in Sessions |-> FreshLocal]

(* The loader alone: one session opens the page, over every document. *)
InitLoad ==
    /\ doc \in AllDocuments
    /\ revisions = 0
    /\ cache = {}
    /\ bodyRuns = 0
    /\ queries = 0
    /\ ss = [s \in Sessions |-> EmptySessionState]
    /\ pc = [s \in Sessions |-> IF s = 1 THEN "load" ELSE "off"]
    /\ ev = [s \in Sessions |-> NoEvent]
    /\ screen = [s \in Sessions |-> NoPage]
    /\ local = [s \in Sessions |-> FreshLocal]

---------------------------------------------------------------------------
(* The environment *)

(* The file WHOAMR.pdf is put in place, removed or replaced on disk. *)
ReplaceDocument ==
    /\ revisions < MaxRevisions
    /\ doc' \in Documents \ {doc}
    /\ revisions' = revisions + 1
    /\ UNCHANGED <<cache, bodyRuns, queries, ss, pc, ev, screen, local>>

---------------------------------------------------------------------------
(* The key check and the defaults of the session state *)

(* Lines 413-429: the API key check and the construction of the client; *)
(* the script goes on only with a client                                   *)
KeyGateOpen(key_present, client_built) == TRUE

KeyGate(key_present, client_built) == key_present /\ client_built

(* Lines 434-557: the defaults of st.session_state, each set when its key  *)
(* is missing, in the order messages, display_messages, show_info          *)
Missing(st) == {"messages", "display_messages", "show_info"} \ DOMAIN st

NextDefault(st, pdf_loaded, pdf_text) ==
    IF "messages" \notin DOMAIN st
    THEN SetDefault(st, "messages",
                    <<SystemMessage(PdfContext(pdf_loaded, pdf_text))>>)
    ELSE IF "display_messages" \notin DOMAIN st
    THEN SetDefault(st, "display_messages", <<>>)
    ELSE SetDefault(st, "show_info", TRUE)

---------------------------------------------------------------------------
(* The page.  A run puts its widgets on the page as it reaches them.  The  *)
(* widgets of earlier runs stay until a run ends (st.stop() or the end of  *)
(* the script), which leaves the widgets of that run only; a run ended by  *)
(* st.rerun() or stopped by an event leaves what is on the page.  The      *)
(* first element of the chat page (584) takes the place of the info        *)
(* screen's columns, and with them of Start Using.                         *)

(* Lines 563-620 for a run with session state st, event e and page P at    *)
(* its start: the page at each place where the run can be stopped before   *)
(* its first write to st.session_state (379, 576, 588, 592, 622) or its    *)
(* end.  The button whose handler the run is about to execute is on it.    *)
Shown(P, st, e) ==
    LET p1 == P \cup {"side_new"}
        p2 == p1 \cup {"start"}
        q0 == p1 \ {"start"}
        q1 == q0 \cup {"about"}
        q2 == q1 \cup {"chat_new"}
        q3 == q2 \cup {"chat_input"}
    IN <<P, p1>> \o
       (IF e.kind = "side_new" THEN <<>>
        ELSE IF st.show_info THEN <<p2>>
        ELSE <<q0, q1>> \o
             (IF e.kind = "about" THEN <<>>
              ELSE <<q2>> \o (IF e.kind = "chat_new" THEN <<>> ELSE <<q3>>)))

(* The page when the run reaches that write *)
PageAt(P, st, e) == Last(Shown(P, st, e))

---------------------------------------------------------------------------
(* User events.  An event starts a new run of the script from the top.  A  *)
(* widget can be used while it is on the page; the script can be rerun at  *)
(* any time.  An event that arrives during a run stops the run where it    *)
(* stands: at its next st. call or access to st.session_state, before the  *)
(* access is made.  What the stopped run had not yet done, the handling of *)
(* its own event included, is never done.  No such place lies inside       *)
(* load_pdf_text: an event that arrives during the call takes effect when  *)
(* the call has returned and stored its result.                            *)

(* The pages on which a run at pc[s] can be stopped: past the defaults the *)
(* run at "page" or "defaults" is anywhere in lines 563-620; elsewhere the *)
(* page is as the last step left it.                                       *)
Pages(s) ==
    IF pc[s] \in {"page", "defaults"} /\ Missing(ss[s]) = {}
    THEN {Shown(screen[s], ss[s], ev[s])[i] :
             i \in DOMAIN Shown(screen[s], ss[s], ev[s])}
    ELSE {screen[s]}

OnScreen(w, page) == w = "rerun" \/ w \in page

Trigger(s, w, e) ==
    /\ pc[s] \notin {"off", "open"}
    /\ \E page \in Pages(s) :
          /\ OnScreen(w, page)
          /\ screen' = [screen EXCEPT ![s] = page]
    /\ pc' = [pc EXCEPT ![s] = "load"]
    /\ ev' = [ev EXCEPT ![s] = e]
    /\ local' = [local EXCEPT ![s] = FreshLocal]
    /\ UNCHANGED <<doc, revisions, cache, bodyRuns, ss>>

Rerun(s) ==
    /\ Trigger(s, "rerun", NoEvent)
    /\ UNCHANGED queries

ClickStart(s) ==
    /\ Trigger(s, "start", Click("start"))
    /\ UNCHANGED queries

ClickSidebarNew(s) ==
    /\ Trigger(s, "side_new", Click("side_new"))
    /\ UNCHANGED queries

ClickAbout(s) ==
    /\ Trigger(s, "about", Click("about"))
    /\ UNCHANGED queries

ClickChatNew(s) ==
    /\ Trigger(s, "chat_new", Click("chat_new"))
    /\ UNCHANGED queries

SubmitPrompt(s) ==
    /\ queries < MaxQueries
    /\ Trigger(s, "chat_input", Submitted(NextPrompt(queries)))
    /\ queries' = queries + 1

---------------------------------------------------------------------------
(* The script, write by write *)

Goto(s, label) == pc' = [pc EXCEPT ![s] = label]

(* st.stop(), or the end of the script: the run is over *)
Finish(s, page) ==
    /\ pc' = [pc EXCEPT ![s] = "idle"]
    /\ screen' = [screen EXCEPT ![s] = page]
    /\ ev' = [ev EXCEPT ![s] = NoEvent]
    /\ local' = [local EXCEPT ![s] = FreshLocal]

(* st.rerun(): the run is over and the script starts again, with no event *)
StRerun(s) ==
    /\ pc' = [pc EXCEPT ![s] = "load"]
    /\ ev' = [ev EXCEPT ![s] = NoEvent]
    /\ local' = [local EXCEPT ![s] = FreshLocal]

(* Lines 404-408: pdf_loaded, once the call has returned value *)
Loaded(s, value) ==
    local' = [local EXCEPT ![s].pdf = value,
                           ![s].pdf_loaded = (value.text # None)]

(* Line 401, pdf_text, pdf_error = load_pdf_text("WHOAMR.pdf"), up to the   *)
(* first read of the file system.  A stored result is returned.  Without   *)
(* one the body starts, under the cache's lock: Path(pdf_path).exists() at *)
(* line 30 either ends the call at line 31 or lets it go on to line 33.    *)
RunLoad(s) ==
    /\ pc[s] = "load"
    /\ IF CacheHit(cache, PdfPath)
       THEN /\ Loaded(s, CacheValue(cache, PdfPath))
            /\ Goto(s, "page")
            /\ UNCHANGED <<cache, bodyRuns>>
       ELSE /\ \A t \in Sessions : pc[t] # "open"
            /\ bodyRuns' = bodyRuns + 1
            /\ IF doc.exists
               THEN /\ Goto(s, "open")
                    /\ UNCHANGED <<cache, local>>
               ELSE LET value == LoadPdfText(FALSE, doc, PdfPath)
                    IN /\ cache' = cache \cup {[path |-> PdfPath, value |-> value]}
                       /\ Loaded(s, value)
                       /\ Goto(s, "page")
    /\ UNCHANGED <<doc, revisions, queries, ss, ev, screen>>

(* Lines 33-42 of the same call: the file is opened and read as it is on   *)
(* disk now, which need not be what line 30 saw; the result is stored.     *)
RunOpen(s) ==
    /\ pc[s] = "open"
    /\ LET value == LoadPdfText(TRUE, doc, PdfPath)
       IN /\ cache' = cache \cup {[path |-> PdfPath, value |-> value]}
          /\ Loaded(s, value)
    /\ Goto(s, "page")
    /\ UNCHANGED <<doc, revisions, bodyRuns, queries, ss, ev, screen>>

(* Each handler below maps the session state and the run's event to the    *)
(* session state after the handler's first write and to how the script     *)
(* goes on: "on" to the next block, "reset" to lines 380-381, "rerun" for  *)
(* st.rerun(), "stop" for st.stop(), "turn" to line 623, "end" to the end  *)
(* of the script.                                                          *)
Outcome(st, go) == [st |-> st, go |-> go]

(* Lines 378-379, in create_sidebar(): the sidebar's New Consultation *)
Sidebar(st, e) ==
    IF e.kind = "side_new" THEN Outcome([st EXCEPT !.messages = <<>>], "reset")
    ELSE Outcome(st, "on")

(* Lines 567-578: the info screen and its Start Using button *)
InfoGate(st) == st.show_info

InfoScreen(st, e) ==
    IF InfoGate(st)
    THEN IF e.kind = "start" THEN Outcome([st EXCEPT !.show_info = FALSE], "rerun")
         ELSE Outcome(st, "stop")
    ELSE Outcome(st, "on")

(* Lines 584-593: the About and New Consultation buttons of the chat page *)
ChatButtons(st, e) ==
    IF e.kind = "about" THEN Outcome([st EXCEPT !.show_info = TRUE], "rerun")
    ELSE IF e.kind = "chat_new"
    THEN Outcome([st EXCEPT !.display_messages = <<>>], "rerun")
    ELSE Outcome(st, "on")

(* Lines 618-622: the chat input; with a prompt the turn begins with       *)
(* display_messages.append                                                 *)
ChatInput(st, e) ==
    IF e.kind = "submit"
    THEN Outcome([st EXCEPT !.display_messages =
                     Append(@, Message("user", e.prompt))], "turn")
    ELSE Outcome(st, "end")

(* Lines 563-622: create_sidebar(), the info screen, the chat buttons, the *)
(* chat input, up to the first write                                       *)
Layout(st, e) ==
    LET a == Sidebar(st, e)
    IN IF a.go # "on" THEN a
       ELSE LET b == InfoScreen(a.st, e)
            IN IF b.go # "on" THEN b
               ELSE LET c == ChatButtons(b.st, e)
                    IN IF c.go # "on" THEN c ELSE ChatInput(c.st, e)

(* The script from line 434 on, for a run with the names now: the next     *)
(* write to st.session_state, a default (440, 554, 557) while one is       *)
(* missing, then the first write of the layout, or the run's end.          *)
Body(s, now) ==
    IF Missing(ss[s]) # {}
    THEN /\ ss' = [ss EXCEPT ![s] = NextDefault(@, now.pdf_loaded, now.pdf.text)]
         /\ local' = [local EXCEPT ![s] =
               [now EXCEPT !.appended =
                   IF "messages" \in Missing(ss[s]) THEN @ \cup {"system"} ELSE @]]
         /\ Goto(s, "defaults")
         /\ UNCHANGED <<ev, screen>>
    ELSE LET r == Layout(ss[s], ev[s])
             page == PageAt(screen[s], ss[s], ev[s])
         IN IF r.go = "stop" THEN Finish(s, InfoPage) /\ UNCHANGED ss
            ELSE IF r.go = "end" THEN Finish(s, ChatPage) /\ UNCHANGED ss
            ELSE /\ ss' = [ss EXCEPT ![s] = r.st]
                 /\ screen' = [screen EXCEPT ![s] = page]
                 /\ IF r.go = "rerun" THEN StRerun(s)
                    ELSE IF r.go = "reset"
                    THEN /\ Goto(s, "reset")
                         /\ local' = [local EXCEPT ![s] = now]
                         /\ UNCHANGED ev
                    ELSE /\ Goto(s, "turn")
                         /\ local' = [local EXCEPT ![s] =
                               [now EXCEPT !.prompt = ev[s].prompt,
                                           !.appended = @ \cup {"user"}]]
                         /\ UNCHANGED ev

(* Lines 405-429, then the script from line 434 to its next write.  With   *)
(* no key or no client the run halts (423, 429).                           *)
RunPage(s) ==
    /\ pc[s] = "page"
    /\ \E key_present \in BOOLEAN, client_built \in BOOLEAN :
          IF ~KeyGate(key_present, client_built)
          THEN Finish(s, NoPage) /\ UNCHANGED ss
          ELSE Body(s, [local[s] EXCEPT !.client = key_present /\ client_built])
    /\ UNCHANGED <<doc, revisions, cache, bodyRuns, queries>>

(* Lines 553-622: the script after the write of a default, to its next     *)
(* write                                                                   *)
RunDefaults(s) ==
    /\ pc[s] = "defaults"
    /\ Body(s, local[s])
    /\ UNCHANGED <<doc, revisions, cache, bodyRuns, queries>>

(* Line 380 of the sidebar's New Consultation: display_messages = [] *)
RunReset(s) ==
    /\ pc[s] = "reset"
    /\ ss' = [ss EXCEPT ![s] = [@ EXCEPT !.display_messages = <<>>]]
    /\ Goto(s, "reset_info")
    /\ UNCHANGED <<doc, revisions, cache, bodyRuns, queries, ev, screen, local>>

(* Lines 381-382: show_info = True, then st.rerun() *)
RunResetInfo(s) ==
    /\ pc[s] = "reset_info"
    /\ ss' = [ss EXCEPT ![s] = [@ EXCEPT !.show_info = TRUE]]
    /\ StRerun(s)
    /\ UNCHANGED <<doc, revisions, cache, bodyRuns, queries, screen>>

(* Line 623: messages.append of the question *)
RunTurn(s) ==
    /\ pc[s] = "turn"
    /\ ss' = AppendTurn(ss, s, "messages", Message("user", local[s].prompt))
    /\ Goto(s, "create")
    /\ UNCHANGED <<doc, revisions, cache, bodyRuns, queries, ev, screen, local>>

(* Lines 629-636: client.chat.completions.create(messages=                 *)
(* st.session_state.messages, stream=True) returns a stream or raises      *)
Request(s) == ss[s].messages

RunCreate(s) ==
    /\ pc[s] = "create"
    /\ \/ Goto(s, "stream") /\ UNCHANGED local
       \/ \E e \in GenErrors :
             /\ local' = [local EXCEPT ![s].raised = TRUE, ![s].error = e]
             /\ Goto(s, "except")
    /\ UNCHANGED <<doc, revisions, cache, bodyRuns, queries, ss, ev, screen>>

(* Lines 638-643: the stream yields a chunk whose delta.content is text or *)
(* None, ends, or raises                                                   *)
RunStream(s) ==
    /\ pc[s] = "stream"
    /\ \/ /\ Len(local[s].full_response) < MaxReplyTokens * Len(Token)
          /\ \E content \in {None, Some(Token)} :
                local' = [local EXCEPT ![s].full_response =
                             IF content # None THEN @ \o content[1] ELSE @]
          /\ UNCHANGED pc
       \/ Goto(s, "record") /\ UNCHANGED local
       \/ \E e \in GenErrors :
             /\ local' = [local EXCEPT ![s].raised = TRUE, ![s].error = e]
             /\ Goto(s, "except")
    /\ UNCHANGED <<doc, revisions, cache, bodyRuns, queries, ss, ev, screen>>

(* Lines 645-648: except Exception as e *)
Handler(full_response, e) == ErrorMessage(e)

RunExcept(s) ==
    /\ pc[s] = "except"
    /\ local' = [local EXCEPT
                    ![s].full_response = Handler(@, local[s].error)]
    /\ Goto(s, "record")
    /\ UNCHANGED <<doc, revisions, cache, bodyRuns, queries, ss, ev, screen>>

(* Line 650: display_messages.append of the reply *)
RunRecord(s) ==
    /\ pc[s] = "record"
    /\ ss' = AppendTurn(ss, s, "display_messages",
                        Message("assistant", local[s].full_response))
    /\ local' = [local EXCEPT ![s].appended = @ \cup {"assistant"}]
    /\ Goto(s, "recorded")
    /\ UNCHANGED <<doc, revisions, cache, bodyRuns, queries, ev, screen>>

(* Line 651, messages.append of the reply, then the footer: the script     *)
(* ends                                                                    *)
RunRecorded(s) ==
    /\ pc[s] = "recorded"
    /\ ss' = AppendTurn(ss, s, "messages",
                        Message("assistant", local[s].full_response))
    /\ Finish(s, ChatPage)
    /\ UNCHANGED <<doc, revisions, cache, bodyRuns, queries>>

---------------------------------------------------------------------------
(* Specifications *)

(* The steps of a run that no sidebar New Consultation click started *)
Consult(s) ==
    \/ RunLoad(s) \/ RunOpen(s) \/ RunPage(s) \/ RunDefaults(s)
    \/ RunTurn(s) \/ RunCreate(s) \/ RunStream(s) \/ RunExcept(s)
    \/ RunRecord(s) \/ RunRecorded(s)

Script(s) == Consult(s) \/ RunReset(s) \/ RunResetInfo(s)

User(s) ==
    \/ Rerun(s) \/ ClickStart(s) \/ ClickSidebarNew(s) \/ ClickAbout(s)
    \/ ClickChatNew(s) \/ SubmitPrompt(s)

Next == ReplaceDocument \/ \E s \in Sessions : Script(s) \/ User(s)

Spec == Init /\ [][Next]_vars

(* One session, with every widget and every stop of a run, over a document *)
(* that stays on disk as it is.                                            *)
NextSession == \E s \in Sessions : Script(s) \/ User(s)

SpecSession == Init /\ [][NextSession]_vars

(* Two browser sessions open the page and hold consultations at the same   *)
(* time: each uses Start Using and the chat input, also while its run is   *)
(* in progress.                                                            *)
InitConc ==
    /\ doc \in Documents
    /\ revisions = 0
    /\ cache = {}
    /\ bodyRuns = 0
    /\ queries = 0
    /\ ss = [s \in Sessions |-> EmptySessionState]
    /\ pc = [s \in Sessions |-> "load"]
    /\ ev = [s \in Sessions |-> NoEvent]
    /\ screen = [s \in Sessions |-> NoPage]
    /\ local = [s \in Sessions |-> FreshLocal]

NextConc ==
    \/ ReplaceDocument
    \/ \E s \in Sessions : Consult(s) \/ ClickStart(s) \/ SubmitPrompt(s)

SpecConc == InitConc /\ [][NextConc]_vars

(* One session whose runs all run to completion: no widget is used while  *)
(* a run is in progress, so no run is stopped at an st. call.              *)
NextComplete ==
    \/ ReplaceDocument
    \/ \E s \in Sessions : Script(s)
    \/ \E s \in Sessions : pc[s] = "idle" /\ Rerun(s)
    \/ \E s \in Sessions : pc[s] = "idle" /\ ClickStart(s)
    \/ \E s \in Sessions : pc[s] = "idle" /\ ClickSidebarNew(s)
    \/ \E s \in Sessions : pc[s] = "idle" /\ ClickAbout(s)
    \/ \E s \in Sessions : pc[s] = "idle" /\ ClickChatNew(s)
    \/ \E s \in Sessions : pc[s] = "idle" /\ SubmitPrompt(s)

SpecComplete == Init /\ [][NextComplete]_vars

(* The loader and the system prompt, for one session that opens the page *)
NextLoad ==
    \/ ReplaceDocument
    \/ RunLoad(1) \/ RunOpen(1) \/ RunPage(1) \/ RunDefaults(1) \/ Rerun(1)

SpecLoad == InitLoad /\ [][NextLoad]_vars

---------------------------------------------------------------------------
(* Properties *)

Has(st, key) == key \in DOMAIN st

Entries(st, key) == IF Has(st, key) THEN st[key] ELSE <<>>

Turns(q) == SelectSeq(q, LAMBDA m : m.role # "system")

(* Lines 623-651: the run has recorded a question and not yet all of the   *)
(* reply                                                                   *)
InTurn(s) == pc[s] \in {"turn", "create", "stream", "except", "record", "recorded"}

(* Session t took a step *)
Moved(t) == pc'[t] # pc[t] \/ local'[t] # local[t] \/ ev'[t] # ev[t]

LoadFailed == CacheHit(cache, PdfPath) /\ CacheValue(cache, PdfPath).text = None

(* C1: in a turn without grounding context (the document did not load, the *)
(* context block of the system prompt is empty) the question is not sent   *)
(* to the text-generation service.                                         *)
C1_NoUngroundedGeneration ==
    \A s \in Sessions : pc[s] = "create" => local[s].pdf_loaded

(* C2: a document that is missing or unreadable when load_pdf_text runs is *)
(* fatal: no chat input is accepted and no generation request is issued.   *)
C2_LoadFailureIsFatal ==
    LoadFailed => \A s \in Sessions : ~InTurn(s) /\ "chat_input" \notin screen[s]

(* C3: when the generation call raises, at creation of the stream or while *)
(* it is consumed, the turn completes: the handler is entered and makes    *)
(* the error message the reply, line 650 and line 651 record it in both    *)
(* lists, the cached document is untouched, and the run ends on the chat   *)
(* page, whose chat input takes the next question.                         *)
C3_FailedTurnCompletes ==
    [][\A s \in Sessions :
          /\ (InTurn(s) /\ ~local[s].raised /\ local'[s].raised) =>
                pc'[s] = "except"
          /\ (InTurn(s) /\ Moved(s)) => cache' = cache /\ bodyRuns' = bodyRuns
          /\ (pc[s] = "except" /\ Moved(s)) =>
                /\ pc'[s] = "record"
                /\ local'[s].raised
                /\ local'[s].error = local[s].error
                /\ local'[s].full_response = ErrorMessage(local[s].error)
          /\ (pc[s] = "record" /\ local[s].raised /\ Moved(s)) =>
                /\ pc'[s] = "recorded"
                /\ ss'[s].display_messages = Append(ss[s].display_messages,
                        Message("assistant", ErrorMessage(local[s].error)))
                /\ ss'[s].messages = ss[s].messages
          /\ (pc[s] = "recorded" /\ local[s].raised /\ Moved(s)) =>
                /\ pc'[s] = "idle"
                /\ screen'[s] = ChatPage
                /\ ~ss'[s].show_info
                /\ ss'[s].messages = Append(ss[s].messages,
                        Message("assistant", ErrorMessage(local[s].error)))
                /\ ss'[s].display_messages = ss[s].display_messages
                /\ CacheHit(cache', PdfPath)]_vars

(* C4: every request sent to the text-generation service has the system    *)
(* instruction with its context block as first message and the current     *)
(* question as last message.                                               *)
C4_RequestShape ==
    \A s \in Sessions :
        pc[s] = "create" =>
            /\ Len(Request(s)) >= 2
            /\ Request(s)[1] =
                  SystemMessage(PdfContext(local[s].pdf_loaded, local[s].pdf.text))
            /\ Last(Request(s)) = Message("user", local[s].prompt)

(* C5: turns of two concurrent sessions, successful or failed, leave the   *)
(* cached document alone; a step of one session never changes the other    *)
(* session's state, and what a session's lists gain is that session's own  *)
(* prompt or reply.                                                        *)
C5_SessionsIsolated ==
    [][\A s \in Sessions :
          /\ (ev[s].kind = "submit" /\ Moved(s)) => cache' = cache
          /\ \A t \in Sessions \ {s} : Moved(t) => ss'[s] = ss[s]
          /\ \A key \in {"messages", "display_messages"} :
                (Has(ss[s], key) /\ Len(ss'[s][key]) > Len(ss[s][key])) =>
                    /\ ss'[s][key] \in
                          {Append(ss[s][key], Message("user", ev[s].prompt)),
                           Append(ss[s][key],
                                  Message("assistant", local[s].full_response))}
                    /\ Moved(s)]_vars

(* Both sessions are in a turn at once, with different questions, one of   *)
(* them failing                                                            *)
C5_Witness ==
    /\ pc[1] = "stream" /\ local[1].full_response = Token
    /\ pc[2] = "record" /\ local[2].raised
    /\ local[1].prompt # local[2].prompt

(* The text the claims C6 and C7 expect of a readable document: a page     *)
(* whose extraction fails counts as an empty page.  C6, C7 and C9 are      *)
(* about a file that stays as it is (revisions = 0), so that doc is the    *)
(* document load_pdf_text has read.                                        *)
RECURSIVE TolerantText(_, _)
TolerantText(pages, i) ==
    IF i > Len(pages) THEN ""
    ELSE PageHeader(i) \o (IF pages[i].raises THEN "" ELSE pages[i].text)
         \o TolerantText(pages, i + 1)

Readable(d) == d.exists /\ d.opens

(* C6: when text extraction raises on a page, load_pdf_text does not abort: *)
(* the page contributes empty text, the other pages' text is returned, and  *)
(* no error is.                                                             *)
C6_PageFailureTolerated ==
    (/\ revisions = 0
     /\ Readable(doc)
     /\ \E i \in DOMAIN doc.pages : doc.pages[i].raises
     /\ CacheHit(cache, PdfPath))
    => CacheValue(cache, PdfPath) =
          [text |-> Some(TolerantText(doc.pages, 1)), error |-> None]

(* C7: a document all of whose pages extract to empty text is a failed     *)
(* load with a message of its own, other than the one of the missing file; *)
(* it is not reported as loaded.                                           *)
C7_EmptyDocumentRejected ==
    (/\ revisions = 0
     /\ Readable(doc)
     /\ Len(doc.pages) >= 1
     /\ \A i \in DOMAIN doc.pages : ~doc.pages[i].raises /\ doc.pages[i].text = ""
     /\ CacheHit(cache, PdfPath))
    => /\ CacheValue(cache, PdfPath).text = None
       /\ CacheValue(cache, PdfPath).error # None
       /\ CacheValue(cache, PdfPath).error # Some(NotFoundMessage(PdfPath))
       /\ \A s \in Sessions : ~local[s].pdf_loaded

(* C8: over all reruns and sessions of the process the body of             *)
(* load_pdf_text runs at most once for the path; every call returns the    *)
(* result stored by that execution, a success or a failure, whatever the   *)
(* file has become since.                                                  *)
C8_LoadedOnce ==
    /\ bodyRuns <= 1
    /\ Cardinality(cache) + Cardinality({s \in Sessions : pc[s] = "open"}) = bodyRuns
    /\ \A s \in Sessions :
          local[s].pdf # NoResult =>
              /\ CacheHit(cache, PdfPath)
              /\ local[s].pdf = CacheValue(cache, PdfPath)
              /\ local[s].pdf_loaded = (CacheValue(cache, PdfPath).text # None)

(* Both sessions have called the loader in their current runs, the body    *)
(* ran once, and the file on disk is no longer the one that was read       *)
C8_Witness ==
    /\ bodyRuns = 1
    /\ revisions = 1
    /\ \A s \in Sessions : pc[s] = "page" /\ local[s].pdf # NoResult
    /\ ev[1].kind = "submit"
    /\ local[1].pdf # LoadPdfText(doc.exists, doc, PdfPath)

(* The length of the text load_pdf_text returns for a readable document *)
RECURSIVE DocTextLen(_, _)
DocTextLen(pages, i) ==
    IF i > Len(pages) THEN 0
    ELSE Len(PageHeader(i)) + Len(pages[i].text) + DocTextLen(pages, i + 1)

LongDocument(d) ==
    /\ Readable(d)
    /\ \A i \in DOMAIN d.pages : ~d.pages[i].raises
    /\ DocTextLen(d.pages, 1) > ContextLimit

(* C9: for a document text longer than the context limit the context block *)
(* of the system prompt is the first 10000 characters of the text followed *)
(* by the truncation marker, and the text itself stays whole in the cache.  *)
C9_ContextTruncated ==
    \A s \in Sessions :
        (revisions = 0 /\ LongDocument(doc) /\ Has(ss[s], "messages")) =>
            LET content == ss[s].messages[1].content
                text == CacheValue(cache, PdfPath).text[1]
                from == Len(PromptHead) + Len(ContextHeader)
                upto == from + ContextLimit
            IN /\ Len(text) = DocTextLen(doc.pages, 1)
               /\ SubSeq(content, 1, from) = PromptHead \o ContextHeader
               /\ SubSeq(content, from + 1, upto) = SubSeq(text, 1, ContextLimit)
               /\ SubSeq(content, upto + 1, Len(content)) =
                     TruncationMarker \o PromptTail

(* A session's system prompt was built from a two-page document longer     *)
(* than the limit                                                          *)
C9_Witness ==
    /\ revisions = 0
    /\ LongDocument(doc)
    /\ Len(doc.pages) = 2
    /\ Has(ss[1], "messages")
    /\ screen[1] = InfoPage

(* The run of session s halts, leaving page: NoPage at the key check or at *)
(* the client's construction, InfoPage at the info screen                  *)
Halts(s, page) ==
    pc[s] \in {"page", "defaults"} /\ pc'[s] = "idle" /\ screen'[s] = page

(* C10 as stated: a request is issued only in a run with the key, a client *)
(* and show_info False; a run that halts at the key check, at the client's *)
(* construction or at the info screen has added no entry to messages or to *)
(* display_messages.                                                       *)
C10_HaltedRunAddsNothing ==
    [][\A s \in Sessions :
          /\ pc'[s] = "create" => local'[s].client /\ ~ss'[s].show_info
          /\ (Halts(s, NoPage) \/ Halts(s, InfoPage)) =>
                local[s].appended = {} /\ ss'[s] = ss[s]]_vars

(* C10 amended: such a run has added no user or assistant entry.  A run    *)
(* halted at the key check or at the client's construction has added no    *)
(* entry; a run halted at the info screen may have put the system prompt   *)
(* into messages.                                                          *)
C10_HaltedRunAddsNoTurn ==
    [][\A s \in Sessions :
          /\ pc'[s] = "create" => local'[s].client /\ ~ss'[s].show_info
          /\ Halts(s, NoPage) => local[s].appended = {} /\ ss'[s] = ss[s]
          /\ Halts(s, InfoPage) =>
                local[s].appended \subseteq {"system"} /\ ss'[s] = ss[s]]_vars

(* A run halted at the key check in a session that holds a consultation *)
C10_Witness ==
    \E s \in Sessions :
        /\ pc[s] = "idle"
        /\ screen[s] = NoPage
        /\ Missing(ss[s]) = {}
        /\ Len(ss[s].messages) >= 3
        /\ ~ss[s].show_info

(* C11: after New Consultation, in the sidebar or in the chat area, the     *)
(* next request holds no user or assistant message recorded before the     *)
(* reset.  Both buttons empty display_messages, which from then on gains   *)
(* exactly the entries of the new consultation; so the user and assistant  *)
(* messages of a request are to be the entries of display_messages.        *)
C11_RequestStartsAfterReset ==
    \A s \in Sessions :
        pc[s] = "create" => Turns(Request(s)) = ss[s].display_messages

(* user, assistant, user, assistant, ...: empty, or from user to assistant *)
Alternates(q) ==
    /\ Len(q) % 2 = 0
    /\ \A i \in DOMAIN q : q[i].role = (IF i % 2 = 1 THEN "user" ELSE "assistant")

Front(q) == SubSeq(q, 1, Len(q) - 1)

(* q ends with the question of the turn, after an alternating history *)
EndsWithQuestion(q, s) ==
    /\ q # <<>>
    /\ Last(q) = Message("user", local[s].prompt)
    /\ Alternates(Front(q))

(* C12: a turn that runs to completion appends one user message and then   *)
(* one assistant message to messages and to display_messages, also when    *)
(* generation fails; so with completed turns and resets the entries other  *)
(* than the system prompt alternate user, assistant, from a user message   *)
(* to an assistant message.  Within a turn a list ends with the turn's     *)
(* question, after an alternating history, from the append of the question *)
(* (622, 623) to the append of the reply (650, 651).                       *)
C12_TurnsAlternate ==
    \A s \in Sessions :
        Has(ss[s], "messages") =>
            LET t == Turns(ss[s].messages)
                d == Entries(ss[s], "display_messages")
            IN /\ IF pc[s] \in {"create", "stream", "except", "record", "recorded"}
                  THEN EndsWithQuestion(t, s)
                  ELSE Alternates(t)
               /\ IF pc[s] \in {"turn", "create", "stream", "except", "record"}
                  THEN EndsWithQuestion(d, s)
                  ELSE Alternates(d)

(* Two turns have completed, the first of them failed *)
C12_Witness ==
    \E s \in Sessions : \E e \in GenErrors :
        /\ pc[s] = "idle"
        /\ Missing(ss[s]) = {}
        /\ Len(Turns(ss[s].messages)) = 4
        /\ Turns(ss[s].messages)[2] = Message("assistant", ErrorMessage(e))
        /\ Turns(ss[s].messages)[4] = Message("assistant", Token)
        /\ ss[s].display_messages = Turns(ss[s].messages)

IsSuffix(d, q) ==
    /\ Len(d) <= Len(q)
    /\ SubSeq(q, Len(q) - Len(d) + 1, Len(q)) = d

(* C13: between the runs of the script, whatever queries, info-screen      *)
(* toggles and New Consultation clicks came before, display_messages is a  *)
(* suffix of messages: what is shown to the user is, in the same order,    *)
(* the end of the history that is sent to the text-generation service.     *)
C13_DisplayIsSuffix ==
    \A s \in Sessions :
        (pc[s] = "idle" /\ Missing(ss[s]) = {}) =>
            IsSuffix(ss[s].display_messages, ss[s].messages)

====
